---- MODULE Spec2Model ----
(***************************************************************************)
(* Model of the CDR3 entropy notebook                                      *)
(* (data_processing/11_shared-clonotype-properties.ipynb):                  *)
(*   get_sequences        reads the two count files line by line, buckets  *)
(*                        the sequences by (shared/unshared, length) and    *)
(*                        downselects the two groups to the same size;      *)
(*   entropy              normalised Shannon entropy of one column;         *)
(*   calculate_entropies  one record per interior column of every bucket.   *)
(* and of the two notebooks of                                              *)
(* data_processing/10_shared-clonotype-frequency.ipynb:                     *)
(*   the shared-frequency loop over the occurrence files;                   *)
(*   count_duplicates     counts the lines of a file by their first field.  *)
(* The notebooks declare a Python 3 kernel (language_info 3.6.4), so the    *)
(* library calls are modelled with their Python 3 / numpy behaviour.        *)
(***************************************************************************)
EXTENDS Integers, Sequences, FiniteSets, TLC

VARIABLES
    \* get_sequences
    pc, fidx, consumed, seqs, all_seqs, selected_seqs, err,
    \* one call of entropy
    epc, column, eres,
    \* repeated calls of calculate_entropies on one pool mapping
    seq_dict, seq_type, runs,
    \* the shared-frequency loop over the occurrence files
    fpc, of, nfiles, count, shared_frequencies_by_group,
    shared_frequencies_by_group_size, ferr, fout,
    \* one call of count_duplicates
    cpc, input_file, output_dir, clines, dcounts, output_file, output, cerr

pvars == <<pc, fidx, consumed, seqs, all_seqs, selected_seqs, err>>

evars == <<epc, column, eres>>

tvars == <<seq_dict, seq_type, runs>>

fvars == <<fpc, of, nfiles, count, shared_frequencies_by_group,
           shared_frequencies_by_group_size, ferr, fout>>

cvars == <<cpc, input_file, output_dir, clines, dcounts, output_file, output, cerr>>

vars == <<pvars, evars, tvars, fvars, cvars>>

\* ------------------------------------------------------------------ bounds
\* total number of lines read from the two input files
MaxLines == 3

\* longest column handed to entropy
MaxCol == 4

\* number of sequences in a pool mapping handed to calculate_entropies
MaxSeqs == 3

\* number of calls of calculate_entropies on the same pool mapping
MaxRuns == 2

\* number of occurrence files processed by the shared-frequency loop
MaxFiles == 2

\* number of lines read by get_sequences when they come from SampleLines
MaxSampleLines == 5

\* number of lines of one occurrence file
MaxFileLines == 2

\* number of lines read by one call of count_duplicates
MaxCountLines == 3

\* ------------------------------------------------------------ text helpers
Rep(c, n) == [i \in 1..n |-> c]

\* the characters c with c.isspace() among those a string of this module can
\* hold: space, \t, \n, \r, \f, \x0b, \x1c..\x1f, \x85, \xa0 and U+1680.  The
\* other Unicode spaces (U+2000..U+200A, U+2028, U+2029, U+202F, U+205F,
\* U+3000) lie outside that alphabet, and no input line here contains them.
Whitespace ==
    {" ", "\t", "\n", "\r", "\f",
     "", "", "", "", "",
     "", " ", " "}

Digits == <<"0", "1", "2", "3", "4", "5", "6", "7", "8", "9">>

\* the decimal digits (Unicode category Nd) a string of this module can hold,
\* one row per script, each row in the order 0..9: ASCII, Extended
\* Arabic-Indic, NKo, Bengali, Gujarati, Tamil, Kannada, Sinhala Lith, Lao,
\* Myanmar Shan, Khmer, New Tai Lue, Tai Tham Hora, Tai Tham Tham, Sundanese,
\* Saurashtra, Javanese, Myanmar Tai Laing, Meetei Mayek.  The digits of the
\* other scripts lie outside that alphabet, and no input line here holds them.
DecimalDigits ==
    <<Digits,
     <<"۰", "۱", "۲", "۳", "۴", "۵", "۶", "۷", "۸", "۹">>,
     <<"߀", "߁", "߂", "߃", "߄", "߅", "߆", "߇", "߈", "߉">>,
     <<"০", "১", "২", "৩", "৪", "৫", "৬", "৭", "৮", "৯">>,
     <<"૦", "૧", "૨", "૩", "૪", "૫", "૬", "૭", "૮", "૯">>,
     <<"௦", "௧", "௨", "௩", "௪", "௫", "௬", "௭", "௮", "௯">>,
     <<"೦", "೧", "೨", "೩", "೪", "೫", "೬", "೭", "೮", "೯">>,
     <<"෦", "෧", "෨", "෩", "෪", "෫", "෬", "෭", "෮", "෯">>,
     <<"໐", "໑", "໒", "໓", "໔", "໕", "໖", "໗", "໘", "໙">>,
     <<"႐", "႑", "႒", "႓", "႔", "႕", "႖", "႗", "႘", "႙">>,
     <<"០", "១", "២", "៣", "៤", "៥", "៦", "៧", "៨", "៩">>,
     <<"᧐", "᧑", "᧒", "᧓", "᧔", "᧕", "᧖", "᧗", "᧘", "᧙">>,
     <<"᪀", "᪁", "᪂", "᪃", "᪄", "᪅", "᪆", "᪇", "᪈", "᪉">>,
     <<"᪐", "᪑", "᪒", "᪓", "᪔", "᪕", "᪖", "᪗", "᪘", "᪙">>,
     <<"᮰", "᮱", "᮲", "᮳", "᮴", "᮵", "᮶", "᮷", "᮸", "᮹">>,
     <<"꣐", "꣑", "꣒", "꣓", "꣔", "꣕", "꣖", "꣗", "꣘", "꣙">>,
     <<"꧐", "꧑", "꧒", "꧓", "꧔", "꧕", "꧖", "꧗", "꧘", "꧙">>,
     <<"꧰", "꧱", "꧲", "꧳", "꧴", "꧵", "꧶", "꧷", "꧸", "꧹">>,
     <<"꯰", "꯱", "꯲", "꯳", "꯴", "꯵", "꯶", "꯷", "꯸", "꯹">>>>

IsDecimal(c) ==
    \E b \in 1..Len(DecimalDigits) : \E d \in 1..10 : DecimalDigits[b][d] = c

\* the whitespace int() drops at both ends: the ASCII space, \t, \n, \r, \f,
\* \x0b, and every non-ASCII space; \x1c..\x1f stay and make the text invalid
IntWhitespace == Whitespace \ {"", "", "", ""}

\* the step of int(str) before the parse: every decimal digit becomes the
\* ASCII digit of its value and every space of IntWhitespace an ASCII space
TransformDecimalAndSpaceToASCII(s) ==
    [i \in 1..Len(s) |->
        IF s[i] \in IntWhitespace THEN " "
        ELSE IF IsDecimal(s[i])
             THEN Digits[CHOOSE d \in 1..10 :
                             \E b \in 1..Len(DecimalDigits) : DecimalDigits[b][d] = s[i]]
             ELSE s[i]]

RECURSIVE SkipSpaces(_)
SkipSpaces(s) == IF s # <<>> /\ Head(s) = " " THEN SkipSpaces(Tail(s)) ELSE s

RECURSIVE DropTrailingSpaces(_)
DropTrailingSpaces(s) ==
    IF s # <<>> /\ s[Len(s)] = " " THEN DropTrailingSpaces(SubSeq(s, 1, Len(s) - 1))
    ELSE s

IsDigit(c) == \E d \in 1..10 : Digits[d] = c

DigitVal(c) == (CHOOSE d \in 1..10 : Digits[d] = c) - 1

\* str.strip(): drop leading and trailing whitespace
RECURSIVE LStrip(_)
LStrip(s) == IF s # <<>> /\ Head(s) \in Whitespace THEN LStrip(Tail(s)) ELSE s

RECURSIVE RStrip(_)
RStrip(s) ==
    IF s # <<>> /\ s[Len(s)] \in Whitespace
    THEN RStrip(SubSeq(s, 1, Len(s) - 1))
    ELSE s

Strip(s) == RStrip(LStrip(s))

\* str.split() without arguments: the maximal runs of non-whitespace
RECURSIVE SplitAcc(_, _, _, _)
SplitAcc(s, i, cur, out) ==
    IF i > Len(s)
    THEN IF cur = <<>> THEN out ELSE Append(out, cur)
    ELSE IF s[i] \in Whitespace
         THEN SplitAcc(s, i + 1, <<>>, IF cur = <<>> THEN out ELSE Append(out, cur))
         ELSE SplitAcc(s, i + 1, Append(cur, s[i]), out)

Split(s) == SplitAcc(s, 1, <<>>, <<>>)

\* int(str): the text with its decimal digits and spaces made ASCII and the
\* spaces at both ends dropped; then an optional sign, then decimal digits,
\* single underscores allowed between digits; anything else raises ValueError
RECURSIVE DigitsValue(_, _)
DigitsValue(body, acc) ==
    IF body = <<>> THEN acc
    ELSE IF Head(body) = "_" THEN DigitsValue(Tail(body), acc)
         ELSE DigitsValue(Tail(body), 10 * acc + DigitVal(Head(body)))

ValidIntBody(body) ==
    /\ body # <<>>
    /\ \A i \in 1..Len(body) : IsDigit(body[i]) \/ body[i] = "_"
    /\ IsDigit(body[1])
    /\ IsDigit(body[Len(body)])
    /\ \A i \in 1..(Len(body) - 1) : ~(body[i] = "_" /\ body[i + 1] = "_")

int(tok) ==
    LET text   == DropTrailingSpaces(SkipSpaces(TransformDecimalAndSpaceToASCII(tok)))
        signed == text # <<>> /\ text[1] \in {"+", "-"}
        body   == IF signed THEN Tail(text) ELSE text
    IN  IF ValidIntBody(body)
        THEN [raised |-> "none",
              val |-> IF signed /\ text[1] = "-"
                      THEN 0 - DigitsValue(body, 0)
                      ELSE DigitsValue(body, 0)]
        ELSE [raised |-> "ValueError", val |-> 0]

\* ------------------------------------------------------------ get_sequences
Groups == {"shared", "unshared"}

GroupOrder == <<"shared", "unshared">>

MinLength == 7

MaxLength == 14

Lengths == MinLength..MaxLength

SeqTypes == <<"observed", "subject-specific synthetic">>

SeqTypeSet == {SeqTypes[i] : i \in 1..Len(SeqTypes)}

EmptyPools == [g \in Groups |-> [l \in Lengths |-> <<>>]]

Classify_wide(c) ==
    IF c = 1 THEN "unshared"
    ELSE IF c \in 6..11 THEN "shared"
    ELSE "excluded"

Classify(c) ==
    IF c = 1 THEN "unshared"
    ELSE IF c \in 6..10 THEN "shared"
    ELSE "excluded"

AppendSeq_fixedkey(pools, s, l, aa) ==
    [pools EXCEPT ![s][MinLength] = Append(@, aa)]

AppendSeq(pools, s, l, aa) ==
    [pools EXCEPT ![s][l] = Append(@, aa)]

\* the body of the loop over the lines of one file
ProcessLine(pools, line) ==
    LET sline == Split(Strip(line))
        skip  == [pools |-> pools, raised |-> "none"]
    IN  IF sline = <<>> THEN skip
        ELSE LET c == int(sline[1])
             IN  IF c.raised # "none"
                 THEN [pools |-> pools, raised |-> c.raised]
                 ELSE LET s == Classify(c.val)
                      IN  IF s = "excluded" THEN skip
                          ELSE IF Len(sline) < 4 THEN skip
                          ELSE LET aa == sline[4]
                                   l  == Len(aa)
                               IN  IF l \notin Lengths THEN skip
                                   ELSE [pools |-> AppendSeq(pools, s, l, aa),
                                         raised |-> "none"]

\* ------------------------------------------------------------- input lines
Sp == <<" ">>

Xf == <<"x">>

\* every line that "for line in f" yields ends with "\n", the form the text
\* mode of open() gives every line terminator
NL == <<"\n">>

Row(tag, aa) == tag \o Sp \o Xf \o Sp \o Xf \o Sp \o aa

A7 == Rep("A", 7)

M7 == <<"A", "C", "D", "E", "F", "G", "H">>

C7 == Rep("C", 7)

C8 == Rep("C", 8)

W14 == Rep("W", 14)

W15 == Rep("W", 15)

G6 == Rep("G", 6)

LineUnsharedA7 == Row(<<"1">>, A7) \o NL

LineUnsharedM7 == Row(<<"1">>, M7) \o NL

\* the tag 6 written with the Extended Arabic-Indic digit
LineSharedC7 == Row(<<"۶">>, C7) \o NL

LineSharedC8 == Row(<<"1", "0">>, C8) \o Sp \o Xf \o <<"\t", "\n">>

LineSharedW14 ==
    <<" ", "0", "6", "\t">> \o Xf \o <<"\f", "">> \o Xf \o <<" ">> \o W14 \o NL

LineTag3 == Row(<<"3">>, Rep("G", 7)) \o NL

LineTag11 == Row(<<"1", "1">>, A7) \o NL

LineShort == Row(<<"1">>, G6) \o NL

LineLong == Row(<<"6">>, W15) \o NL

LineFewFields == <<"1">> \o Sp \o Xf \o NL

LineBlank == NL

LineBadTag == Row(<<"x">>, A7) \o NL

Lines ==
    {LineUnsharedA7, LineUnsharedM7, LineSharedC7, LineSharedC8, LineSharedW14,
     LineTag3, LineTag11, LineShort, LineLong, LineFewFields, LineBlank,
     LineBadTag}

\* ------------------------------------------------------------- downselect
\* the rows of files whose buckets of length 7 grow to two and three sequences
SampleLines == {LineUnsharedA7, LineUnsharedM7, LineSharedC7}

Min2(a, b) == IF a <= b THEN a ELSE b

Max2(a, b) == IF a >= b THEN a ELSE b

NumSeqs_max(pools, length) ==
    Max2(Len(pools["shared"][length]), Len(pools["unshared"][length]))

NumSeqs(pools, length) ==
    Min2(Len(pools["shared"][length]), Len(pools["unshared"][length]))

\* the injective index sequences of length n over 1..m
InjSeqs(m, n) ==
    {p \in [1..n -> 1..m] : \A i, j \in 1..n : i # j => p[i] # p[j]}

Choice_withreplacement(s, n) == {[i \in 1..n |-> s[p[i]]] : p \in [1..n -> 1..Len(s)]}

\* np.random.choice(s, size=n, replace=False): every outcome of the draw
Choice(s, n) == {[i \in 1..n |-> s[p[i]]] : p \in InjSeqs(Len(s), n)}

Downselect(pools, shared_type, length) ==
    LET s == pools[shared_type][length]
        n == NumSeqs(pools, length)
    IN  IF Len(s) > n THEN Choice(s, n) ELSE {s}

\* every result of the two inner loops (lengths, then groups) for one seq_type
RECURSIVE BalanceFrom(_, _, _, _)
BalanceFrom(pools, length, gi, acc) ==
    IF length > MaxLength THEN acc
    ELSE IF gi > Len(GroupOrder) THEN BalanceFrom(pools, length + 1, 1, acc)
    ELSE LET g == GroupOrder[gi]
         IN  BalanceFrom(pools, length, gi + 1,
                 {[sel EXCEPT ![g] = [l \in (DOMAIN sel[g]) \cup {length} |->
                                         IF l = length THEN b ELSE sel[g][l]]] :
                     sel \in acc, b \in Downselect(pools, g, length)})

NoBuckets == [l \in {} |-> <<>>]

BalanceOutcomes(pools) ==
    BalanceFrom(pools, MinLength, 1, {[g \in Groups |-> NoBuckets]})

\* ------------------------------------------------------------------ entropy
\* A float result is kept exact: FloatZero is the literal 0., and
\* [counts, n, k] stands for -sum((c/n) * ln(c/n) for c in counts) / ln(k).
FloatZero == [counts |-> <<>>, n |-> 0, k |-> 0]

NormEntropy(counts, n, k) == [counts |-> counts, n |-> n, k |-> k]

Return(v) == [raised |-> "none", value |-> v]

Raise(e) == [raised |-> e, value |-> FloatZero]

\* Counter(residues): the count of every distinct symbol, in the order of
\* first occurrence
FirstAt(residues, i) == \A j \in 1..(i - 1) : residues[j] # residues[i]

CountOf(residues, x) == Cardinality({i \in 1..Len(residues) : residues[i] = x})

RECURSIVE CounterFrom(_, _, _)
CounterFrom(residues, i, acc) ==
    IF i > Len(residues) THEN acc
    ELSE CounterFrom(residues, i + 1,
             IF FirstAt(residues, i)
             THEN Append(acc, CountOf(residues, residues[i]))
             ELSE acc)

\* Counter(residues).values(): under Python 3 a dict_values view, not a list
CounterValues(residues) ==
    [type |-> "dict_values", data |-> CounterFrom(residues, 1, <<>>)]

\* np.asarray(obj, dtype=np.float64): a list or tuple of numbers becomes an
\* array; any other object is converted as one scalar with float(obj), which
\* raises TypeError for a dict_values view
asarray_float64(obj) ==
    IF obj.type \in {"list", "tuple"}
    THEN [raised |-> "none", data |-> obj.data]
    ELSE [raised |-> "TypeError", data |-> <<>>]

IsNonzero(c) == c # 0

entropy(residues) ==
    LET n_residues == Len(residues)
    IN  IF n_residues <= 1 THEN Return(FloatZero)
        ELSE LET counts == asarray_float64(CounterValues(residues))
             IN  IF counts.raised # "none" THEN Raise(counts.raised)
                 ELSE LET probs     == SelectSeq(counts.data, IsNonzero)
                          n_classes == Len(probs)
                      IN  IF n_classes <= 1 THEN Return(FloatZero)
                          ELSE Return(NormEntropy(probs, n_residues, n_classes))

\* ------------------------------------------------------ calculate_entropies
\* list(zip(*seqs)): one column per index up to the shortest sequence
MinLen(ss) == CHOOSE m \in {Len(ss[i]) : i \in 1..Len(ss)} :
                  \A i \in 1..Len(ss) : m <= Len(ss[i])

Zip(ss) ==
    IF ss = <<>> THEN <<>>
    ELSE [j \in 1..MinLen(ss) |-> [i \in 1..Len(ss) |-> ss[i][j]]]

Trim == 3

\* cols[3:-3]
Interior(cols) ==
    LET start == Min2(Trim, Len(cols))
        stop  == Max2(Len(cols) - Trim, 0)
    IN  IF start < stop THEN SubSeq(cols, start + 1, stop) ELSE <<>>

EntropyRecord(st, s, l, e) ==
    [sample |-> st \o " (" \o s \o ")", seq_type |-> st, entropy |-> e,
     length |-> l, shared |-> s]

\* A dict handed to calculate_entropies is the sequence of its (key, value)
\* pairs in insertion order, which is the order keys() walks.
DictKey(item) == item[1]

DictValue(item) == item[2]

\* the innermost loop: one record per interior column, stops at the first
\* exception
RECURSIVE ColumnsFrom(_, _, _, _, _, _)
ColumnsFrom(cols, i, st, s, l, acc) ==
    IF acc.raised # "none" \/ i > Len(cols) THEN acc
    ELSE LET e == entropy(cols[i])
         IN  ColumnsFrom(cols, i + 1, st, s, l,
                 IF e.raised # "none"
                 THEN [raised |-> e.raised, edata |-> acc.edata]
                 ELSE [raised |-> "none",
                       edata |-> Append(acc.edata, EntropyRecord(st, s, l, e.value))])

\* "for l in seq_dict[s].keys()" over the pairs of one group's dict
RECURSIVE LengthsFrom(_, _, _, _, _)
LengthsFrom(d, i, st, s, acc) ==
    IF acc.raised # "none" \/ i > Len(d) THEN acc
    ELSE LengthsFrom(d, i + 1, st, s,
             ColumnsFrom(Interior(Zip(DictValue(d[i]))), 1, st, s, DictKey(d[i]), acc))

\* "for s in seq_dict.keys()"
RECURSIVE GroupsFrom(_, _, _, _)
GroupsFrom(sd, gi, st, acc) ==
    IF acc.raised # "none" \/ gi > Len(sd) THEN acc
    ELSE GroupsFrom(sd, gi + 1, st,
             LengthsFrom(DictValue(sd[gi]), 1, st, DictKey(sd[gi]), acc))

\* the returned list, or the exception that ends the call
calculate_entropies(sd, st) ==
    LET r == GroupsFrom(sd, 1, st, [raised |-> "none", edata |-> <<>>])
    IN  IF r.raised # "none" THEN [raised |-> r.raised, edata |-> <<>>] ELSE r

\* inputs of calculate_entropies: pool mappings with keys TableLengths
TableLengths == (MinLength - 1)..(MinLength + 1)

TableSeqs == {G6, A7, M7, C8}

TableItems == Groups \X TableSeqs

ListsUpTo(S, n) == UNION {[1..k -> S] : k \in 0..n}

RECURSIVE PoolOf(_, _)
PoolOf(items, acc) ==
    IF items = <<>> THEN acc
    ELSE PoolOf(Tail(items),
             [acc EXCEPT ![Head(items)[1]][Len(Head(items)[2])] =
                             Append(@, Head(items)[2])])

TableContents ==
    {PoolOf(items, [g \in Groups |-> [l \in TableLengths |-> <<>>]]) :
        items \in ListsUpTo(TableItems, MaxSeqs)}

\* the insertion orders of the groups and of the lengths
TableGroupOrders == {<<"shared", "unshared">>, <<"unshared", "shared">>}

TableLengthOrders ==
    {<<MinLength - 1, MinLength, MinLength + 1>>,
     <<MinLength + 1, MinLength, MinLength - 1>>}

\* the dict with the given contents and insertion orders
AsDict(pool, gorder, lorder) ==
    [i \in 1..Len(gorder) |->
        <<gorder[i],
          [j \in 1..Len(lorder) |-> <<lorder[j], pool[gorder[i]][lorder[j]]>>]>>]

TablePools ==
    {AsDict(pool, gorder, lorder) :
        pool \in TableContents, gorder \in TableGroupOrders,
        lorder \in TableLengthOrders}

\* inputs of entropy
Alphabet == {"A", "C", "G", "T"}

Columns == ListsUpTo(Alphabet, MaxCol)

\* ------------------------------------------- shared clonotype frequency
\* (data_processing/10_shared-clonotype-frequency.ipynb, first notebook)
\* str.split(sep): the pieces between the separators, empty ones included
RECURSIVE SplitOnAcc(_, _, _, _, _)
SplitOnAcc(s, sep, i, cur, out) ==
    IF i > Len(s) THEN Append(out, cur)
    ELSE IF s[i] = sep THEN SplitOnAcc(s, sep, i + 1, <<>>, Append(out, cur))
         ELSE SplitOnAcc(s, sep, i + 1, Append(cur, s[i]), out)

SplitOn(s, sep) == SplitOnAcc(s, sep, 1, <<>>, <<>>)

\* os.path.basename: what follows the last "/"
Basename(path) == LET parts == SplitOn(path, "/") IN parts[Len(parts)]

\* str(n) for n >= 0
RECURSIVE IntToStr(_)
IntToStr(n) ==
    IF n < 10 THEN <<Digits[n + 1]>>
    ELSE IntToStr(n \div 10) \o <<Digits[(n % 10) + 1]>>

\* sep.join(parts)
RECURSIVE JoinWith(_, _)
JoinWith(parts, sep) ==
    IF parts = <<>> THEN <<>>
    ELSE IF Len(parts) = 1 THEN parts[1]
         ELSE parts[1] \o sep \o JoinWith(Tail(parts), sep)

\* a float quotient n / d, kept exact as a fraction in lowest terms
RECURSIVE GCD(_, _)
GCD(a, b) == IF b = 0 THEN a ELSE GCD(b, a % b)

Frac(n, d) ==
    LET g == IF n = 0 THEN d ELSE GCD(n, d)
    IN  [num |-> n \div g, den |-> d \div g]

\* subjects.txt and unique_clonotype_counts.json
subjects == <<<<"a">>, <<"b">>>>

subject_sizes == (<<"a">> :> 4) @@ (<<"b">> :> 2)

SubjectsOf(path) == SplitOn(SplitOn(Basename(path), "_")[1], "-")

MinSize(subjs) ==
    CHOOSE m \in {subject_sizes[subjs[i]] : i \in 1..Len(subjs)} :
        \A i \in 1..Len(subjs) : m <= subject_sizes[subjs[i]]

Unbound == [bound |-> FALSE, val |-> 0]

Bound(v) == [bound |-> TRUE, val |-> v]

\* "for line in f" of one occurrence file: the value of count after the loop,
\* or the exception that ends it
RECURSIVE ScanFrom(_, _, _, _)
ScanFrom(lines, i, min_freq, cnt) ==
    IF i > Len(lines) THEN [count |-> cnt, raised |-> "none"]
    ELSE IF Strip(lines[i]) = <<>> THEN ScanFrom(lines, i + 1, min_freq, cnt)
    ELSE IF Split(Strip(lines[i]))[1] = min_freq
         THEN LET f == Split(Strip(lines[i]))
              IN  IF Len(f) < 2 THEN [count |-> cnt, raised |-> "IndexError"]
                  ELSE IF int(f[2]).raised # "none"
                       THEN [count |-> cnt, raised |-> int(f[2]).raised]
                       ELSE [count |-> Bound(int(f[2]).val), raised |-> "none"]
         ELSE ScanFrom(lines, i + 1, min_freq, cnt)

\* the occurrence files: a path naming the subjects of the group, and lines
CountsSuffix ==
    <<"_", "o", "c", "c", "u", "r", "r", "e", "n", "c", "e", "-",
      "c", "o", "u", "n", "t", "s", ".", "t", "x", "t">>

OPath(name) == <<"d", "/">> \o name \o CountsSuffix

OPaths == {OPath(<<"a">>), OPath(<<"b">>), OPath(<<"a", "-", "b">>)}

OLine(k, v) == k \o <<"\t">> \o v \o NL

OLines ==
    {OLine(<<"1">>, <<"4">>), OLine(<<"2">>, <<"3">>), OLine(<<"2">>, <<"۱">>),
     OLine(<<"1", "0">>, <<"7">>), NL, <<"2">> \o NL}

OFiles == [path : OPaths, lines : ListsUpTo(OLines, MaxFileLines)]

GroupSizes == 1..Len(subjects)

\* ---------------------------------------------------------- count_duplicates
\* (data_processing/10_shared-clonotype-frequency.ipynb, second notebook)
InitialCounts_short == [k \in {IntToStr(i) : i \in 1..9} |-> 0]

InitialCounts == [k \in {IntToStr(i) : i \in 1..10} |-> 0]

\* the body of "for line in f"
CountLine(cnts, line) ==
    IF Strip(line) = <<>> THEN [counts |-> cnts, raised |-> "none"]
    ELSE LET c == Split(Strip(line))[1]
         IN  IF c \in DOMAIN cnts
             THEN [counts |-> [cnts EXCEPT ![c] = @ + 1], raised |-> "none"]
             ELSE [counts |-> cnts, raised |-> "KeyError"]

\* sorted(counts.items(), key=lambda x: int(x[0])): the keys by integer value
RECURSIVE SortedKeysFrom(_, _)
SortedKeysFrom(keys, acc) ==
    IF keys = {} THEN acc
    ELSE LET k == CHOOSE x \in keys : \A y \in keys : int(x).val <= int(y).val
         IN  SortedKeysFrom(keys \ {k}, Append(acc, k))

\* '\n'.join('{}\t{}'.format(k, v) for k, v in the sorted items)
DataString(cnts) ==
    LET keys == SortedKeysFrom(DOMAIN cnts, <<>>)
        data == [i \in 1..Len(keys) |->
                    keys[i] \o <<"\t">> \o IntToStr(cnts[keys[i]])]
    IN  JoinWith(data, <<"\n">>)

\* '{}_occurrence-counts.txt'.format(subject_prefix)
\* os.path.join(a, b) of two components: b alone when it is absolute, a and b
\* put together when a is empty or ends with "/", else a, "/" and b
PathJoin(a, b) ==
    IF b # <<>> /\ b[1] = "/" THEN b
    ELSE IF a = <<>> \/ a[Len(a)] = "/" THEN a \o b
    ELSE a \o <<"/">> \o b

OutputFile(path, dir) ==
    PathJoin(dir, SplitOn(Basename(path), "_")[1] \o CountsSuffix)

PoolSuffix == <<"_", "p", "o", "o", "l", ".", "t", "x", "t">>

CPaths == {<<"d", "/", "a">> \o PoolSuffix, <<"d", "/", "a", "-", "b">> \o PoolSuffix}

CLines ==
    {<<"1", "\t", "x">> \o NL, <<"2", " ", "x">> \o NL,
     <<" ", "1", "0", "\t", "x">> \o <<"\f", "\n">>, <<" ", "\t">> \o NL,
     <<"1", "1", "\t", "x">> \o NL, <<"0", "1", "\t", "x">> \o NL, <<"x">> \o NL}

\* the output directories handed to count_duplicates
ODirs == {<<"o", "u", "t">>, <<"o", "u", "t", "/">>, <<".">>, <<>>}

\* -------------------------------------------------------------- the actions
TotalConsumed == Len(consumed[SeqTypes[1]]) + Len(consumed[SeqTypes[2]])

InitPipeline ==
    /\ pc = "read"
    /\ fidx = 1
    /\ consumed = [t \in SeqTypeSet |-> <<>>]
    /\ seqs = EmptyPools
    /\ all_seqs = [t \in {} |-> EmptyPools]
    /\ selected_seqs = [t \in {} |-> EmptyPools]
    /\ err = "none"

IdlePipeline ==
    /\ pc = "idle"
    /\ fidx = 1
    /\ consumed = [t \in SeqTypeSet |-> <<>>]
    /\ seqs = EmptyPools
    /\ all_seqs = [t \in {} |-> EmptyPools]
    /\ selected_seqs = [t \in {} |-> EmptyPools]
    /\ err = "none"

IdleEntropy ==
    /\ epc = "idle"
    /\ column = <<>>
    /\ eres = Return(FloatZero)

IdleTable ==
    /\ seq_dict = <<>>
    /\ seq_type = SeqTypes[1]
    /\ runs = <<>>

IdleFrequency ==
    /\ fpc = "idle"
    /\ of = [path |-> <<>>, lines |-> <<>>]
    /\ nfiles = 0
    /\ count = Unbound
    /\ shared_frequencies_by_group = <<>>
    /\ shared_frequencies_by_group_size = [i \in GroupSizes |-> <<>>]
    /\ ferr = "none"
    /\ fout = <<>>

IdleCounting ==
    /\ cpc = "idle"
    /\ input_file = <<>>
    /\ output_dir = <<>>
    /\ clines = <<>>
    /\ dcounts = InitialCounts
    /\ output_file = <<>>
    /\ output = <<>>
    /\ cerr = "none"

Init == InitPipeline /\ IdleEntropy /\ IdleTable /\ IdleFrequency /\ IdleCounting

\* one iteration of "for line in f", the line drawn from lines and the files
\* holding max lines together
ReadFrom(lines, max) ==
    /\ pc = "read"
    /\ TotalConsumed < max
    /\ \E line \in lines :
         LET r == ProcessLine(seqs, line)
         IN  /\ consumed' = [consumed EXCEPT ![SeqTypes[fidx]] = Append(@, line)]
             /\ seqs' = r.pools
             /\ err' = r.raised
             /\ pc' = IF r.raised = "none" THEN "read" ELSE "error"
    /\ UNCHANGED <<fidx, all_seqs, selected_seqs, evars, tvars, fvars, cvars>>

\* end of one file: all_seqs[seq_type] = seqs, then the next file or the
\* initialisation of selected_seqs
EndOfFile ==
    /\ pc = "read"
    /\ all_seqs' = [t \in (DOMAIN all_seqs) \cup {SeqTypes[fidx]} |->
                       IF t = SeqTypes[fidx] THEN seqs ELSE all_seqs[t]]
    /\ IF fidx < Len(SeqTypes)
       THEN /\ fidx' = fidx + 1
            /\ seqs' = EmptyPools
            /\ UNCHANGED <<pc, selected_seqs>>
       ELSE /\ pc' = "balance"
            /\ fidx' = 1
            /\ selected_seqs' = [t \in SeqTypeSet |-> [g \in Groups |-> NoBuckets]]
            /\ UNCHANGED seqs
    /\ UNCHANGED <<consumed, err, evars, tvars, fvars, cvars>>

\* one iteration of "for seq_type in ['observed', 'subject-specific synthetic']"
Balance ==
    /\ pc = "balance"
    /\ \E sel \in BalanceOutcomes(all_seqs[SeqTypes[fidx]]) :
         selected_seqs' = [selected_seqs EXCEPT ![SeqTypes[fidx]] = sel]
    /\ IF fidx < Len(SeqTypes)
       THEN fidx' = fidx + 1 /\ UNCHANGED pc
       ELSE pc' = "done" /\ UNCHANGED fidx
    /\ UNCHANGED <<consumed, seqs, all_seqs, err, evars, tvars, fvars, cvars>>

ReadLine == ReadFrom(Lines, MaxLines)

Next == ReadLine \/ EndOfFile \/ Balance

Spec == Init /\ [][Next]_vars

\* ---- get_sequences on longer files of the rows of SampleLines
ReadSampleLine == ReadFrom(SampleLines, MaxSampleLines)

NextSample == ReadSampleLine \/ EndOfFile \/ Balance

SpecSample == Init /\ [][NextSample]_vars

\* ---- one call of entropy on a column drawn from Columns
InitEntropy ==
    /\ IdlePipeline
    /\ IdleTable
    /\ IdleFrequency
    /\ IdleCounting
    /\ epc = "call"
    /\ column \in Columns
    /\ eres = Return(FloatZero)

CallEntropy ==
    /\ epc = "call"
    /\ eres' = entropy(column)
    /\ epc' = "done"
    /\ UNCHANGED <<column, pvars, tvars, fvars, cvars>>

NextEntropy == CallEntropy

SpecEntropy == InitEntropy /\ [][NextEntropy]_vars

\* ---- calls of calculate_entropies on a pool mapping drawn from TablePools
InitTable ==
    /\ IdlePipeline
    /\ IdleEntropy
    /\ IdleFrequency
    /\ IdleCounting
    /\ seq_dict \in TablePools
    /\ seq_type \in SeqTypeSet
    /\ runs = <<>>

CalculateEntropies ==
    /\ Len(runs) < MaxRuns
    /\ runs' = Append(runs, calculate_entropies(seq_dict, seq_type))
    /\ UNCHANGED <<seq_dict, seq_type, pvars, evars, fvars, cvars>>

NextTable == CalculateEntropies

SpecTable == InitTable /\ [][NextTable]_vars

\* ---- the shared-frequency loop over occurrence files drawn from OFiles
InitFrequency ==
    /\ IdlePipeline
    /\ IdleEntropy
    /\ IdleTable
    /\ IdleCounting
    /\ fpc = "loop"
    /\ of = [path |-> <<>>, lines |-> <<>>]
    /\ nfiles = 0
    /\ count = Unbound
    /\ shared_frequencies_by_group = <<>>
    /\ shared_frequencies_by_group_size = [i \in GroupSizes |-> <<>>]
    /\ ferr = "none"
    /\ fout = <<>>

\* list_files names every file of the directory once: the paths already
\* taken are those of the entries appended so far
Listed(path) ==
    \E i \in 1..Len(shared_frequencies_by_group) :
        shared_frequencies_by_group[i].label =
            JoinWith(SubjectsOf(path), <<",", " ">>) \o <<":", " ">>

\* one iteration of "for i, of in enumerate(cross_subject_occurance_files)"
ProcessFile ==
    /\ fpc = "loop"
    /\ nfiles < MaxFiles
    /\ \E f \in {g \in OFiles : ~Listed(g.path)} :
         LET _subjects == SubjectsOf(f.path)
             smallest  == MinSize(_subjects)
             min_freq  == IntToStr(Len(_subjects))
             r         == ScanFrom(f.lines, 1, min_freq, count)
             raised    == IF r.raised # "none" THEN r.raised
                          ELSE IF ~r.count.bound THEN "NameError"
                          ELSE "none"
             frequency == Frac(r.count.val, smallest)
         IN  /\ of' = f
             /\ nfiles' = nfiles + 1
             /\ count' = r.count
             /\ ferr' = raised
             /\ IF raised # "none"
                THEN /\ fpc' = "error"
                     /\ UNCHANGED <<shared_frequencies_by_group,
                                    shared_frequencies_by_group_size>>
                ELSE /\ fpc' = "loop"
                     /\ shared_frequencies_by_group' =
                            Append(shared_frequencies_by_group,
                                   [label |-> JoinWith(_subjects, <<",", " ">>) \o <<":", " ">>,
                                    value |-> Frac(100 * r.count.val, smallest)])
                     /\ shared_frequencies_by_group_size' =
                            [shared_frequencies_by_group_size
                                EXCEPT ![Len(_subjects)] = Append(@, frequency)]
    /\ UNCHANGED <<fout, pvars, evars, tvars, cvars>>

\* after the loop: the text file (one entry per line) and the JSON dump
WriteFrequencies ==
    /\ fpc = "loop"
    /\ fpc' = "written"
    /\ fout' = <<shared_frequencies_by_group, shared_frequencies_by_group_size>>
    /\ UNCHANGED <<of, nfiles, count, shared_frequencies_by_group,
                   shared_frequencies_by_group_size, ferr, pvars, evars, tvars, cvars>>

NextFrequency == ProcessFile \/ WriteFrequencies

SpecFrequency == InitFrequency /\ [][NextFrequency]_vars

\* ---- one call of count_duplicates on lines drawn from CLines
InitCounting ==
    /\ IdlePipeline
    /\ IdleEntropy
    /\ IdleTable
    /\ IdleFrequency
    /\ cpc = "read"
    /\ input_file \in CPaths
    /\ output_dir \in ODirs
    /\ clines = <<>>
    /\ dcounts = InitialCounts
    /\ output_file = <<>>
    /\ output = <<>>
    /\ cerr = "none"

\* one iteration of "for line in f"
ReadCountLine ==
    /\ cpc = "read"
    /\ Len(clines) < MaxCountLines
    /\ \E line \in CLines :
         LET r == CountLine(dcounts, line)
         IN  /\ clines' = Append(clines, line)
             /\ dcounts' = r.counts
             /\ cerr' = r.raised
             /\ cpc' = IF r.raised = "none" THEN "read" ELSE "error"
    /\ UNCHANGED <<input_file, output_dir, output_file, output, pvars, evars, tvars, fvars>>

\* end of the input: write the output file and return counts
WriteCounts ==
    /\ cpc = "read"
    /\ output_file' = OutputFile(input_file, output_dir)
    /\ output' = DataString(dcounts)
    /\ cpc' = "done"
    /\ UNCHANGED <<input_file, output_dir, clines, dcounts, cerr, pvars, evars, tvars, fvars>>

NextCounting == ReadCountLine \/ WriteCounts

SpecCounting == InitCounting /\ [][NextCounting]_vars

\* ================================================================== claims
Fields(line) == Split(line)

\* what the claims say of each input line: its number of fields, whether its
\* first field is an integer and which, and its 4th field
RowInfo ==
    [line \in Lines |->
        LET f == Fields(line)
        IN  [nfields |-> Len(f),
             numeric |-> f # <<>> /\ int(f[1]).raised = "none",
             tag     |-> IF f # <<>> THEN int(f[1]).val ELSE 0,
             aa      |-> IF Len(f) >= 4 THEN f[4] ELSE <<>>]]

\* the row carries an integer tag of group g and a 4th field of length l in range
Accepts(line, g, l) ==
    LET r == RowInfo[line]
    IN  /\ r.nfields >= 4
        /\ r.numeric
        /\ \/ g = "unshared" /\ r.tag = 1
           \/ g = "shared" /\ r.tag >= 6 /\ r.tag <= 10
        /\ Len(r.aa) = l
        /\ l >= 7 /\ l <= 14

RECURSIVE AcceptedSeqs(_, _, _)
AcceptedSeqs(lines, g, l) ==
    IF lines = <<>> THEN <<>>
    ELSE LET rest == AcceptedSeqs(SubSeq(lines, 1, Len(lines) - 1), g, l)
             last == lines[Len(lines)]
         IN  IF Accepts(last, g, l) THEN Append(rest, RowInfo[last].aa) ELSE rest

Contains(lines, line) == \E i \in 1..Len(lines) : lines[i] = line

\* C1: every bucket (group, length) holds exactly the 4th fields of the rows
\* read so far whose integer tag is 1 (unshared) or in 6..10 (shared) and whose
\* sequence length is in 7..14, in input order; no other row changes a bucket.
C1_BucketsHoldAcceptedRows ==
    /\ pc \in {"read", "error"} =>
          \A g \in Groups, l \in Lengths :
              seqs[g][l] = AcceptedSeqs(consumed[SeqTypes[fidx]], g, l)
    /\ \A t \in DOMAIN all_seqs : \A g \in Groups, l \in Lengths :
          all_seqs[t][g][l] = AcceptedSeqs(consumed[t], g, l)

C1_Witness ==
    /\ pc = "done"
    /\ \E t \in SeqTypeSet :
          /\ Contains(consumed[t], LineTag3)
          /\ Contains(consumed[t], LineShort)
          /\ \E g \in Groups, l \in Lengths : all_seqs[t][g][l] # <<>>

Malformed(line) == RowInfo[line].nfields < 4 \/ ~RowInfo[line].numeric

\* C2: a row with fewer than 4 fields or a non-numeric tag raises no error,
\* leaves every bucket unchanged, and the loop goes on with the next row.
C2_MalformedRowSkipped ==
    [][(pc = "read" /\ consumed' # consumed) =>
          LET cur == consumed'[SeqTypes[fidx]]
          IN  Malformed(cur[Len(cur)]) =>
                  (err' = "none" /\ seqs' = seqs /\ pc' = "read")]_vars

Filled(t) ==
    /\ t \in DOMAIN selected_seqs
    /\ \A g \in Groups : DOMAIN selected_seqs[t][g] = Lengths

\* C3: every sequence stored in bucket (group, L) has length exactly L, while
\* the pools are built and after they are balanced.
C3_PoolLengthInvariant ==
    /\ \A g \in Groups, l \in Lengths : \A i \in 1..Len(seqs[g][l]) :
          Len(seqs[g][l][i]) = l
    /\ \A t \in DOMAIN all_seqs : \A g \in Groups, l \in Lengths :
          \A i \in 1..Len(all_seqs[t][g][l]) : Len(all_seqs[t][g][l][i]) = l
    /\ \A t \in DOMAIN selected_seqs : \A g \in Groups :
          \A l \in DOMAIN selected_seqs[t][g] :
              \A i \in 1..Len(selected_seqs[t][g][l]) :
                  Len(selected_seqs[t][g][l][i]) = l

C3_Witness ==
    /\ pc = "done"
    /\ \E t \in SeqTypeSet, g \in Groups, l \in Lengths :
          /\ selected_seqs[t][g][l] # <<>>
          /\ Len(selected_seqs[t][g][l]) < Len(all_seqs[t][g][l])
          /\ Len(selected_seqs[t][g][l][1]) = l

\* C4: for every dataset type and every length, both balanced buckets have
\* exactly n = min(|shared[L]|, |unshared[L]|) elements, and no error is raised.
C4_BalancedSizes ==
    \A t \in SeqTypeSet : Filled(t) =>
        /\ err = "none"
        /\ \A l \in Lengths :
              LET a == Len(all_seqs[t]["shared"][l])
                  b == Len(all_seqs[t]["unshared"][l])
                  n == IF a < b THEN a ELSE b
              IN  /\ Len(selected_seqs[t]["shared"][l]) = n
                  /\ Len(selected_seqs[t]["unshared"][l]) = n

C4_Witness ==
    /\ pc = "done"
    /\ \E t \in SeqTypeSet, l \in Lengths :
          /\ Len(all_seqs[t]["shared"][l]) = 1
          /\ Len(all_seqs[t]["unshared"][l]) = 2
          /\ Len(selected_seqs[t]["unshared"][l]) = 1

Occurrences(ss, x) == Cardinality({i \in 1..Len(ss) : ss[i] = x})

SubMultiset(small, big) ==
    \A i \in 1..Len(small) : Occurrences(small, small[i]) <= Occurrences(big, small[i])

\* C5: every balanced bucket is a sub-multiset of its input bucket, whatever
\* the draw, and a bucket not larger than n is returned with the same sequences.
C5_SampleWithoutReplacement ==
    \A t \in SeqTypeSet : Filled(t) =>
        \A g \in Groups, l \in Lengths :
            LET a == Len(all_seqs[t]["shared"][l])
                b == Len(all_seqs[t]["unshared"][l])
                n == IF a < b THEN a ELSE b
            IN  /\ SubMultiset(selected_seqs[t][g][l], all_seqs[t][g][l])
                /\ Len(all_seqs[t][g][l]) <= n =>
                      selected_seqs[t][g][l] = all_seqs[t][g][l]

\* a draw of two out of three sequences next to an untouched bucket of two
C5_Witness ==
    /\ pc = "done"
    /\ \E t \in SeqTypeSet :
          /\ all_seqs[t]["unshared"][7] = <<A7, M7, A7>>
          /\ selected_seqs[t]["unshared"][7] = <<A7, A7>>
          /\ all_seqs[t]["shared"][7] = <<C7, C7>>
          /\ selected_seqs[t]["shared"][7] = all_seqs[t]["shared"][7]

\* ---- exact comparisons of a float result [counts, n, k]
RECURSIVE Pow(_, _)
Pow(b, e) == IF e = 0 THEN 1 ELSE b * Pow(b, e - 1)

RECURSIVE SelfPowers(_)
SelfPowers(cs) == IF cs = <<>> THEN 1 ELSE Pow(Head(cs), Head(cs)) * SelfPowers(Tail(cs))

RECURSIVE Sum(_)
Sum(cs) == IF cs = <<>> THEN 0 ELSE Head(cs) + Sum(Tail(cs))

\* 0 <= v <= 1: the sum of (c/n) * ln(n/c) is at most ln(k) exactly when
\* n^n <= k^n * prod(c^c)
InUnitInterval(v) ==
    \/ v = FloatZero
    \/ Pow(v.n, v.n) <= Pow(v.k, v.n) * SelfPowers(v.counts)

IsOne(v) ==
    /\ v # FloatZero
    /\ Pow(v.n, v.n) = Pow(v.k, v.n) * SelfPowers(v.counts)

Symbols(col) == {col[i] : i \in 1..Len(col)}

Uniform(col) ==
    \A x, y \in Symbols(col) : Occurrences(col, x) = Occurrences(col, y)

\* C6: entropy returns exactly 0 for a column of 0 or 1 elements and for a
\* column with exactly one distinct symbol, however often it is repeated.
C6_EntropyZeroCases ==
    (epc = "done" /\ (Len(column) <= 1 \/ Cardinality(Symbols(column)) = 1)) =>
        eres = Return(FloatZero)

\* C7: entropy returns a value and raises no error for every finite column;
\* when the final formula is evaluated there are k >= 2 classes, every count
\* is positive and at most n, and the counts sum to n.
C7_EntropyTotal ==
    epc = "done" =>
        /\ eres.raised = "none"
        /\ eres.value # FloatZero =>
              /\ eres.value.k >= 2
              /\ eres.value.k = Len(eres.value.counts)
              /\ eres.value.n = Len(column)
              /\ \A i \in 1..Len(eres.value.counts) :
                    eres.value.counts[i] > 0 /\ eres.value.counts[i] <= eres.value.n
              /\ Sum(eres.value.counts) = eres.value.n

\* C8: for every non-empty column entropy lies in [0, 1], and it is 1 when the
\* k >= 2 distinct symbols of the column all occur equally often.
C8_EntropyInUnitInterval ==
    (epc = "done" /\ Len(column) >= 1) =>
        /\ eres.raised = "none"
        /\ InUnitInterval(eres.value)
        /\ (Cardinality(Symbols(column)) >= 2 /\ Uniform(column)) => IsOne(eres.value)

RecordsOf(edata, g, l) ==
    LET Of(rec) == rec.shared = g /\ rec.length = l
    IN  SelectSeq(edata, Of)

\* C9: for every group and every length L whose bucket holds sequences of
\* length L, calculate_entropies emits one record per index in [3, L-3), in
\* order (L-6 records for L >= 7, none for L <= 6), each with the entropy of
\* the column of symbols at that index.
C9_OneRecordPerInteriorPosition ==
    \A r \in 1..Len(runs) :
        /\ runs[r].raised = "none"
        /\ \A gi \in 1..Len(seq_dict) : \A li \in 1..Len(seq_dict[gi][2]) :
              seq_dict[gi][2][li][2] # <<>> =>
                  LET g    == seq_dict[gi][1]
                      l    == seq_dict[gi][2][li][1]
                      ss   == seq_dict[gi][2][li][2]
                      recs == RecordsOf(runs[r].edata, g, l)
                  IN  /\ Len(recs) = (IF l >= 7 THEN l - 6 ELSE 0)
                      /\ \A j \in 1..Len(recs) :
                            Return(recs[j].entropy) =
                                entropy([i \in 1..Len(ss) |-> ss[i][Trim + j]])

\* the lines of a file that are not blank and whose first field is key
MatchingLines(lines, key) ==
    {i \in 1..Len(lines) : Fields(lines[i]) # <<>> /\ Fields(lines[i])[1] = key}

TotalBySize ==
    Sum([i \in GroupSizes |-> Len(shared_frequencies_by_group_size[i])])

\* C11: the frequency recorded for a file is the count of that same file (the
\* second field of its first non-blank line whose first field is the number
\* of subjects of the group) divided by the smallest subject size of the
\* group, never a count left by an earlier file, and one frequency per file is
\* appended to the per-group list and to the list of the group's size.
C11_FrequencyFromSameFile ==
    (nfiles > 0 /\ fpc # "error") =>
        LET subjs == SubjectsOf(of.path)
            m     == MatchingLines(of.lines, IntToStr(Len(subjs)))
            first == CHOOSE i \in m : \A j \in m : i <= j
            cnt   == int(Fields(of.lines[first])[2]).val
            bysz  == shared_frequencies_by_group_size[Len(subjs)]
        IN  /\ Len(shared_frequencies_by_group) = nfiles
            /\ TotalBySize = nfiles
            /\ m # {}
            /\ bysz[Len(bysz)] = Frac(cnt, MinSize(subjs))
            /\ shared_frequencies_by_group[nfiles].value =
                   Frac(100 * cnt, MinSize(subjs))

TenKeys ==
    {<<"1">>, <<"2">>, <<"3">>, <<"4">>, <<"5">>, <<"6">>, <<"7">>, <<"8">>,
     <<"9">>, <<"1", "0">>}

NonBlank == {i \in 1..Len(clines) : Fields(clines[i]) # <<>>}

WithFirstField(c) == {i \in NonBlank : Fields(clines[i])[1] = c}

\* C12: counts has exactly the keys '1'..'10'; counts[c] is the number of
\* non-blank lines read whose first field is c, and without an error the counts
\* sum to the number of non-blank lines read; a non-blank line whose first
\* field is no key raises KeyError and ends the call; the written output has
\* one row per key, in ascending numeric order, with the key and its count.
C12_CountsMatchLines ==
    /\ DOMAIN dcounts = TenKeys
    /\ \A c \in TenKeys : dcounts[c] = Cardinality(WithFirstField(c))
    /\ cerr = "none" =>
          Sum([i \in 1..10 |-> dcounts[IntToStr(i)]]) = Cardinality(NonBlank)
    /\ (\E i \in NonBlank : Fields(clines[i])[1] \notin TenKeys) <=>
          (cerr = "KeyError" /\ cpc = "error")
    /\ cpc = "done" =>
          LET rows == SplitOn(output, "\n")
          IN  /\ Len(rows) = 10
              /\ \A i \in 1..10 :
                    /\ Len(Fields(rows[i])) = 2
                    /\ int(Fields(rows[i])[1]) = [raised |-> "none", val |-> i]
                    /\ int(Fields(rows[i])[2]) =
                           [raised |-> "none",
                            val |-> Cardinality({j \in NonBlank :
                                       int(Fields(clines[j])[1]).val = i
                                       /\ Fields(clines[j])[1] \in TenKeys})]

C12_Witness ==
    /\ cpc = "done"
    /\ Len(clines) = 3
    /\ Cardinality(NonBlank) = 2
    /\ dcounts[<<"1", "0">>] = 1
    /\ dcounts[<<"2">>] = 1

====
